---- MODULE Spec2Model ----
(***************************************************************************)
(* Model of src/main.py (the Panchang API).                                *)
(*                                                                         *)
(* Representation.                                                         *)
(*  - A Python str is a sequence of one-character strings, so that         *)
(*    slicing, int(), lower() and title() are computed, not assumed.       *)
(*  - A Python float is an exact rational <<n, d>> with d > 0 (n/d).       *)
(*    IEEE rounding is not modelled.                                       *)
(*  - A call that may raise has an outcome: Return(v), Raise(type) or,     *)
(*    when the call was never reached, NotRun.                             *)
(*  - The Swiss Ephemeris (swe) is an external collaborator: its answers   *)
(*    for one request are the record eph, chosen nondeterministically.     *)
(***************************************************************************)
EXTENDS Integers, Sequences, FiniteSets, TLC

VARIABLES
  pc,         \* "idle", then which operation has run
  req,        \* the inputs of the operation
  res,        \* what the operation returned (the response of a request)
  \* the local variables of the handler panchang, for the record:
  city_key,   \* city after line 141
  coords,     \* (lat, lon) of line 142
  dt,         \* outcome of strptime (line 145)
  sun,        \* outcome of calculate_sun_times (line 149)
  tithi,      \* outcome of get_tithi (line 152)
  nakshatra,  \* outcome of get_nakshatra (line 153)
  window,     \* the fractional hours get_rahu_kaal formats (lines 123-124)
  rahu        \* outcome of get_rahu_kaal (line 158)

locals == <<city_key, coords, dt, sun, tithi, nakshatra, window, rahu>>

vars == <<pc, req, res, locals>>

(***************************************************************************)
(* Bounds of the model.                                                    *)
(***************************************************************************)
\* Grid points per minute of the fractional-hour inputs of SpecFormat.
SubMin == 4
\* Grid points per degree of the longitudes of SpecLunar.
LonRes == 3
\* Spacing (in grid points) of the Sun longitudes of SpecLunar.
SunStep == 37
\* Spacing (in minutes) of the sunrise/sunset inputs of SpecRahu.
TimeStep == 47

(***************************************************************************)
(* Exact rational arithmetic standing for Python float arithmetic.         *)
(***************************************************************************)
Abs(n) == IF n < 0 THEN -n ELSE n

\* Euclid's algorithm, as a function so that its arguments are values.
gcd[a \in Nat, b \in Nat] == IF b = 0 THEN a ELSE gcd[b, a % b]

\* The fraction n/d in lowest terms.
rnorm[n \in Int, d \in Nat] == <<n \div gcd[Abs(n), d], d \div gcd[Abs(n), d]>>

RNorm(n, d) == rnorm[n, d]

\* The operations are functions so that an argument is a value, computed once.
Rat == Int \X Nat

radd[x \in Rat, y \in Rat] == RNorm(x[1] * y[2] + y[1] * x[2], x[2] * y[2])
rsub[x \in Rat, y \in Rat] == RNorm(x[1] * y[2] - y[1] * x[2], x[2] * y[2])
rmul[x \in Rat, k \in Int] == RNorm(x[1] * k, x[2])
rdiv[x \in Rat, k \in Nat] == RNorm(x[1], x[2] * k)
rless[x \in Rat, y \in Rat] == x[1] * y[2] < y[1] * x[2]
rleq[x \in Rat, y \in Rat] == x[1] * y[2] <= y[1] * x[2]

RInt(k) == <<k, 1>>
RAdd(x, y) == radd[x, y]
RSub(x, y) == rsub[x, y]
RMulInt(x, k) == rmul[x, k]
RDivInt(x, k) == rdiv[x, k]
RLess(x, y) == rless[x, y]
RLeq(x, y) == rleq[x, y]

\* Python int(float): truncation toward zero.
inttrunc[x \in Rat] ==
  IF x[1] >= 0 THEN x[1] \div x[2] ELSE -((-x[1]) \div x[2])

IntTrunc(x) == inttrunc[x]

(***************************************************************************)
(* Python str and int helpers.                                             *)
(***************************************************************************)
DigitChars == <<"0", "1", "2", "3", "4", "5", "6", "7", "8", "9">>
LowerChars == <<"a", "b", "c", "d", "e", "f", "g", "h", "i", "j", "k", "l", "m",
                "n", "o", "p", "q", "r", "s", "t", "u", "v", "w", "x", "y", "z">>
UpperChars == <<"A", "B", "C", "D", "E", "F", "G", "H", "I", "J", "K", "L", "M",
                "N", "O", "P", "Q", "R", "S", "T", "U", "V", "W", "X", "Y", "Z">>

Range(s) == {s[i] : i \in 1..Len(s)}
IsDigit(c) == c \in Range(DigitChars)
IsLower(c) == c \in Range(LowerChars)
IsUpper(c) == c \in Range(UpperChars)
IndexIn(c, s) == CHOOSE i \in 1..Len(s) : s[i] = c
DigitVal(c) == IndexIn(c, DigitChars) - 1

\* The outcome of a call: it returned a value, it raised, or it was not made.
Raise(type) == [st |-> "raised", type |-> type]
Return(v) == [st |-> "ok", val |-> v]
NotRun == [st |-> "notrun"]
Raised(r) == r.st = "raised"
Ok(r) == r.st = "ok"

\* A Python str.
Str == Seq(STRING)

\* F applied to the value of e: the value of a call is computed once and
\* then named, as an assignment to a local variable does.
Bind(e, F(_)) == CHOOSE r \in {F(v) : v \in {e}} : TRUE
Bind2(e1, e2, F(_, _)) == CHOOSE r \in {F(v1, v2) : v1 \in {e1}, v2 \in {e2}} : TRUE

\* Python s[a:b] for 0 <= a <= b (bounds clipped to the length).
Slice(s, a, b) ==
  LET hi == IF b > Len(s) THEN Len(s) ELSE b
  IN  IF a >= hi THEN <<>> ELSE SubSeq(s, a + 1, hi)

\* Python s[-k:] for k > 0.
Tail_(s, k) == IF k >= Len(s) THEN s ELSE SubSeq(s, Len(s) - k + 1, Len(s))

\* The recursive helpers are functions so that an argument is a value,
\* computed once.
strip_left[s \in Str] ==
  IF s # <<>> /\ Head(s) = " " THEN strip_left[Tail(s)] ELSE s

strip_right[s \in Str] ==
  IF s # <<>> /\ s[Len(s)] = " " THEN strip_right[SubSeq(s, 1, Len(s) - 1)] ELSE s

StripLeft(s) == strip_left[s]
StripRight(s) == strip_right[s]

\* The number a string of decimal digits denotes.
digits_val[s \in Str] ==
  IF s = <<>> THEN 0
  ELSE 10 * digits_val[SubSeq(s, 1, Len(s) - 1)] + DigitVal(s[Len(s)])

DigitsVal(s) == digits_val[s]

\* Python int(str): surrounding whitespace and one sign are accepted, then
\* one or more decimal digits; anything else raises ValueError.
pyint[s \in Str] ==
  Bind(StripRight(StripLeft(s)), LAMBDA t :
    LET signed == t # <<>> /\ Head(t) \in {"+", "-"}
        ds == IF signed THEN Tail(t) ELSE t
    IN  IF ds = <<>> \/ \E i \in 1..Len(ds) : ~IsDigit(ds[i])
        THEN Raise("ValueError")
        ELSE Return(IF signed /\ Head(t) = "-" THEN -DigitsVal(ds) ELSE DigitsVal(ds)))

PyInt(s) == pyint[s]

\* The decimal digits of k >= 0.
dec[k \in Nat] ==
  IF k < 10 THEN <<DigitChars[k + 1]>>
  ELSE dec[k \div 10] \o <<DigitChars[(k % 10) + 1]>>

Dec(k) == dec[k]

\* Python f"{k:02}" of an int: zero padded to width 2, the sign counted.
Fmt02(k) ==
  IF k < 0 THEN <<"-">> \o Dec(-k)
  ELSE IF k < 10 THEN <<"0">> \o Dec(k)
  ELSE Dec(k)

\* Python list[i]: negative indices count from the end, others raise.
PyIndex(list, i) ==
  IF 0 <= i /\ i < Len(list) THEN Return(list[i + 1])
  ELSE IF -Len(list) <= i /\ i < 0 THEN Return(list[Len(list) + i + 1])
  ELSE Raise("IndexError")

(***************************************************************************)
(* format_time_from_float (src/main.py 33-43)                              *)
(***************************************************************************)
format_time_from_float_noon24(t) ==
  LET hour == IntTrunc(t)
      minute == IntTrunc(RMulInt(RSub(t, RInt(hour)), 60))
      ampm == IF hour < 12 THEN <<"A", "M">> ELSE <<"P", "M">>
      h == hour % 12
      hour12 == IF h = 0 THEN 12 ELSE h
  IN  Fmt02(hour12) \o <<":">> \o Fmt02(minute) \o <<" ">> \o ampm

format_time[t \in Rat] ==
  LET hour == IntTrunc(t)
      minute == IntTrunc(RMulInt(RSub(t, RInt(hour)), 60))
      ampm == IF hour < 12 \/ hour = 24 THEN <<"A", "M">> ELSE <<"P", "M">>
      h == hour % 12
      hour12 == IF h = 0 THEN 12 ELSE h
  IN  Fmt02(hour12) \o <<":">> \o Fmt02(minute) \o <<" ">> \o ampm

format_time_from_float(t) == format_time[t]

(***************************************************************************)
(* get_rahu_kaal.time_to_float (src/main.py 110-116)                       *)
(***************************************************************************)
time_to_float_no_midnight(t) ==
  Bind2(PyInt(Slice(t, 0, 2)), PyInt(Slice(t, 3, 5)), LAMBDA h, m :
    LET ampm == Tail_(t, 2)
    IN  IF Raised(h) THEN h
        ELSE IF Raised(m) THEN m
        ELSE LET h1 == IF ampm = <<"P", "M">> /\ h.val # 12 THEN h.val + 12 ELSE h.val
             IN  Return(RNorm(h1 * 60 + m.val, 60)))

parse_time[t \in Str] ==
  Bind2(PyInt(Slice(t, 0, 2)), PyInt(Slice(t, 3, 5)), LAMBDA h, m :
    LET ampm == Tail_(t, 2)
    IN  IF Raised(h) THEN h
        ELSE IF Raised(m) THEN m
        ELSE LET h1 == IF ampm = <<"P", "M">> /\ h.val # 12 THEN h.val + 12 ELSE h.val
                 h2 == IF ampm = <<"A", "M">> /\ h1 = 12 THEN 0 ELSE h1
             IN  Return(RNorm(h2 * 60 + m.val, 60)))

time_to_float(t) == parse_time[t]

(***************************************************************************)
(* The ephemeris collaborator (swisseph).  eph holds its answers for one   *)
(* request: eph.rise and eph.set for rise_trans(...)[1][0], eph.sun and    *)
(* eph.moon for calc_ut(...)[0][0]; each is a rational or Fault (the       *)
(* empty tuple: the call raises).  Longitudes are in [0, 360).             *)
(***************************************************************************)
Fault == <<>>

swe_call(answer) == IF answer = Fault THEN Raise("swisseph.Error") ELSE Return(answer)

\* Python x % m for a float x and an int m > 0: the result is in [0, m).
RMod(x, m) == RNorm(x[1] % (m * x[2]), x[2])

(***************************************************************************)
(* get_tithi (src/main.py 68-83)                                           *)
(***************************************************************************)
tithi_names ==
  <<"Pratipada", "Dvitiya", "Tritiya", "Chaturthi", "Panchami", "Shashthi",
    "Saptami", "Ashtami", "Navami", "Dashami", "Ekadashi", "Dwadashi",
    "Trayodashi", "Chaturdashi", "Purnima/Amavasya">>

tithi_num(sun_long, moon_long) ==
  IntTrunc(RDivInt(RMod(RSub(moon_long, sun_long), 360), 12)) + 1

get_tithi_no_mod(eph) ==
  LET sun_long == swe_call(eph.sun)
      moon_long == swe_call(eph.moon)
  IN  IF Raised(sun_long) THEN sun_long
      ELSE IF Raised(moon_long) THEN moon_long
      ELSE LET num == tithi_num(sun_long.val, moon_long.val)
               paksha == IF num <= 15 THEN "Shukla" ELSE "Krishna"
               tithi_name == PyIndex(tithi_names, num - 1)
           IN  IF Raised(tithi_name) THEN tithi_name
               ELSE Return(<<tithi_name.val, paksha>>)

get_tithi(eph) ==
  LET sun_long == swe_call(eph.sun)
      moon_long == swe_call(eph.moon)
  IN  IF Raised(sun_long) THEN sun_long
      ELSE IF Raised(moon_long) THEN moon_long
      ELSE LET num == tithi_num(sun_long.val, moon_long.val)
               paksha == IF num <= 15 THEN "Shukla" ELSE "Krishna"
               tithi_idx == (num - 1) % 15
               tithi_name == PyIndex(tithi_names, tithi_idx)
           IN  IF Raised(tithi_name) THEN tithi_name
               ELSE Return(<<tithi_name.val, paksha>>)

(***************************************************************************)
(* get_nakshatra (src/main.py 85-99)                                       *)
(***************************************************************************)
nak_names ==
  <<"Ashwini", "Bharani", "Krittika", "Rohini", "Mrigashirsha", "Ardra",
    "Punarvasu", "Pushya", "Ashlesha", "Magha", "Purva Phalguni",
    "Uttara Phalguni", "Hasta", "Chitra", "Swati", "Vishakha", "Anuradha",
    "Jyeshtha", "Mula", "Purva Ashadha", "Uttara Ashadha", "Shravana",
    "Dhanishta", "Shatabhisha", "Purva Bhadrapada", "Uttara Bhadrapada",
    "Revati">>

\* A sector width of 13 degrees instead of 360/27.
nak_num_13(moon_long) ==
  IntTrunc(RDivInt(moon_long, 13)) + 1

\* int(moon_long / (360/27)) + 1
nak_num(moon_long) ==
  IntTrunc(RNorm(moon_long[1] * 27, moon_long[2] * 360)) + 1

get_nakshatra(eph) ==
  LET moon_long == swe_call(eph.moon)
  IN  IF Raised(moon_long) THEN moon_long
      ELSE PyIndex(nak_names, (nak_num(moon_long.val) - 1) % 27)

(***************************************************************************)
(* get_rahu_kaal (src/main.py 101-125)                                     *)
(***************************************************************************)
\* Rahu Kaal's order for Mon-Sun (0 = Monday).
rahu_sequence == <<7, 1, 6, 4, 5, 3, 2>>

\* Lines 107-124: the window as fractional hours, before formatting.
rahu_window(weekday, sunrise, sunset) ==
  LET start_index == PyIndex(rahu_sequence, weekday) IN
  Bind2(time_to_float(sunrise), time_to_float(sunset), LAMBDA s_rise, s_set :
    IF Raised(start_index) THEN start_index
    ELSE IF Raised(s_rise) THEN s_rise
    ELSE IF Raised(s_set) THEN s_set
    ELSE LET s_set1 == IF RLess(s_set.val, s_rise.val)
                       THEN RAdd(s_set.val, RInt(24)) ELSE s_set.val
             day_length == RSub(s_set1, s_rise.val)
             rahu_start == RAdd(s_rise.val,
                                RMulInt(RDivInt(day_length, 8), start_index.val - 1))
             rahu_end == RAdd(rahu_start, RDivInt(day_length, 8))
         IN  Return([rahu_start |-> rahu_start, rahu_end |-> rahu_end]))

get_rahu_kaal(weekday, sunrise, sunset) ==
  Bind(rahu_window(weekday, sunrise, sunset), LAMBDA w :
    IF Raised(w) THEN w
    ELSE Return(<<format_time_from_float(w.val.rahu_start),
                  format_time_from_float(w.val.rahu_end)>>))

(***************************************************************************)
(* calculate_sun_times (src/main.py 45-66)                                 *)
(***************************************************************************)
NA == <<"N", "/", "A">>

\* timezone=5.5
timezone == <<11, 2>>

\* Lines 59-65: the timezone shift and the 24-hour wrap-around adjustment.
local_hours(ut) ==
  LET t0 == RAdd(ut, timezone)
      t1 == IF RLess(t0, RInt(0)) THEN RAdd(t0, RInt(24)) ELSE t0
  IN  IF RLeq(RInt(24), t1) THEN RSub(t1, RInt(24)) ELSE t1

\* Returns the pair of strings and, for the record, the values it formatted.
calculate_sun_times(lat, lon, year, month, day, eph) ==
  LET sunrise_ut == swe_call(eph.rise)
      sunset_ut == swe_call(eph.set)
  IN  IF Raised(sunrise_ut) \/ Raised(sunset_ut)
      THEN [sunrise |-> NA, sunset |-> NA, formatted |-> {}]
      ELSE LET sunrise == local_hours(sunrise_ut.val)
               sunset == local_hours(sunset_ut.val)
           IN  [sunrise |-> format_time_from_float(sunrise),
                sunset |-> format_time_from_float(sunset),
                formatted |-> {sunrise, sunset}]

(***************************************************************************)
(* CITY_COORDS (src/main.py 20-29) and the str methods used on city.       *)
(***************************************************************************)
Coord(lat, lon) == <<<<lat, 10000>>, <<lon, 10000>>>>

CITY_KEYS ==
  <<<<"d", "e", "l", "h", "i">>,
    <<"m", "u", "m", "b", "a", "i">>,
    <<"k", "o", "l", "k", "a", "t", "a">>,
    <<"c", "h", "e", "n", "n", "a", "i">>,
    <<"b", "e", "n", "g", "a", "l", "u", "r", "u">>,
    <<"h", "y", "d", "e", "r", "a", "b", "a", "d">>,
    <<"p", "u", "n", "e">>>>

CITY_VALUES ==
  <<Coord(286139, 772090), Coord(190760, 728777), Coord(225726, 883639),
    Coord(130827, 802707), Coord(129716, 775946), Coord(173850, 784867),
    Coord(185204, 738567)>>

\* CITY_COORDS.get(key, default)
CITY_COORDS_get(key, default) ==
  IF \E i \in 1..Len(CITY_KEYS) : CITY_KEYS[i] = key
  THEN CITY_VALUES[CHOOSE i \in 1..Len(CITY_KEYS) : CITY_KEYS[i] = key]
  ELSE default

LowerChar(c) == IF IsUpper(c) THEN LowerChars[IndexIn(c, UpperChars)] ELSE c
UpperChar(c) == IF IsLower(c) THEN UpperChars[IndexIn(c, LowerChars)] ELSE c

\* str.lower()
Lower(s) == [i \in 1..Len(s) |-> LowerChar(s[i])]

\* str.title(): a letter that follows a non-letter is upper-cased, every
\* other letter lower-cased.
Title(s) ==
  [i \in 1..Len(s) |->
     IF i = 1 \/ ~(IsLower(s[i - 1]) \/ IsUpper(s[i - 1]))
     THEN UpperChar(s[i]) ELSE LowerChar(s[i])]

\* Line 141 without the call of lower().
resolve_city_raw(city) == city

\* Line 141: city = city.lower()
resolve_city(city) == Lower(city)

(***************************************************************************)
(* datetime.datetime.strptime(date, "%Y-%m-%d"), weekday(), strftime("%A") *)
(* (src/main.py 145, 154, 157), for strings over digits, '-', ' ' and      *)
(* other ASCII characters.                                                 *)
(***************************************************************************)
\* s.split("-")
split_dash[s \in Str] ==
  IF \A i \in 1..Len(s) : s[i] # "-" THEN <<s>>
  ELSE LET i == CHOOSE j \in 1..Len(s) :
                  s[j] = "-" /\ \A k \in 1..(j - 1) : s[k] # "-"
       IN  <<SubSeq(s, 1, i - 1)>> \o split_dash[SubSeq(s, i + 1, Len(s))]

AllDigits(s) == \A i \in 1..Len(s) : IsDigit(s[i])

IsLeap(y) == (y % 4 = 0 /\ y % 100 # 0) \/ y % 400 = 0

DaysInMonth(y, m) ==
  IF m = 2 THEN (IF IsLeap(y) THEN 29 ELSE 28)
  ELSE IF m \in {4, 6, 9, 11} THEN 30 ELSE 31

\* %Y is four digits; %m is 1[0-2]|0[1-9]|[1-9]; %d is
\* 3[01]|[12]\d|0[1-9]|[1-9]| [1-9]; the whole string must match, and the
\* datetime constructor rejects year 0 and a day past the month's end.
strptime_ymd(date) ==
  LET parts == split_dash[date]
  IN  IF Len(parts) # 3 THEN Raise("ValueError")
      ELSE LET ys == parts[1]
               ms == parts[2]
               ds == parts[3]
               dsp == Len(ds) = 2 /\ ds[1] = " " /\ IsDigit(ds[2]) /\ ds[2] # "0"
               okShape == /\ Len(ys) = 4 /\ AllDigits(ys)
                          /\ Len(ms) \in 1..2 /\ AllDigits(ms)
                          /\ DigitsVal(ms) \in 1..12
                          /\ \/ dsp
                             \/ /\ Len(ds) \in 1..2 /\ AllDigits(ds)
                                /\ DigitsVal(ds) \in 1..31
           IN  IF ~okShape THEN Raise("ValueError")
               ELSE LET y == DigitsVal(ys)
                        m == DigitsVal(ms)
                        d == IF dsp THEN DigitVal(ds[2]) ELSE DigitsVal(ds)
                    IN  IF y < 1 \/ d > DaysInMonth(y, m) THEN Raise("ValueError")
                        ELSE Return([year |-> y, month |-> m, day |-> d])

days_before_month[y \in Nat, m \in 1..12] ==
  IF m = 1 THEN 0 ELSE days_before_month[y, m - 1] + DaysInMonth(y, m - 1)

DaysBeforeMonth(y, m) == days_before_month[y, m]

\* date.toordinal(): 0001-01-01 is day 1.
ToOrdinal(d) ==
  LET y1 == d.year - 1
  IN  y1 * 365 + (y1 \div 4) - (y1 \div 100) + (y1 \div 400)
        + DaysBeforeMonth(d.year, d.month) + d.day

\* dt.weekday(): 0 = Monday
weekday_of(d) == (ToOrdinal(d) + 6) % 7

DayNames ==
  <<"Monday", "Tuesday", "Wednesday", "Thursday", "Friday", "Saturday", "Sunday">>

(***************************************************************************)
(* panchang (src/main.py 129-175): the pieces the action Panchang uses.    *)
(***************************************************************************)
\* The non-ASCII dash of line 170, with its spaces.
Separator == <<" ", "--", " ">>

\* default: Delhi (line 142)
DefaultCoords == Coord(286139, 772090)

\* The exception classes the body can raise; all derive from Exception.
ExceptionTypes == {"ValueError", "IndexError", "swisseph.Error"}

\* An except clause that names ValueError only.
except_ValueError(type) ==
  IF type = "ValueError"
  THEN [kind |-> "failure", body |-> [success |-> FALSE, error |-> type]]
  ELSE [kind |-> "unhandled", body |-> type]

\* Lines 173-175: except Exception as e: return {"success": False, "error": str(e)}
except_Exception(type) ==
  IF type \in ExceptionTypes
  THEN [kind |-> "failure", body |-> [success |-> FALSE, error |-> type]]
  ELSE [kind |-> "unhandled", body |-> type]

\* The first exception raised by the calls of the try block, in order.
FirstRaised(outcomes) ==
  IF \E i \in 1..Len(outcomes) : Raised(outcomes[i])
  THEN outcomes[CHOOSE i \in 1..Len(outcomes) :
                  Raised(outcomes[i]) /\ \A j \in 1..(i - 1) : ~Raised(outcomes[j])]
  ELSE NotRun

\* root (src/main.py 177-184)
root == [msg |-> "Dynamic Panchang API running! Try /api/panchang?city=delhi&date=2025-07-15"]

(***************************************************************************)
(* Initial state shared by all specifications: nothing has been called.    *)
(***************************************************************************)
None == "None"

Init ==
  /\ pc = "idle"
  /\ req = None
  /\ res = None
  /\ city_key = <<>>
  /\ coords = <<>>
  /\ dt = NotRun
  /\ sun = NotRun
  /\ tithi = NotRun
  /\ nakshatra = NotRun
  /\ window = NotRun
  /\ rahu = NotRun

(***************************************************************************)
(* Spec: one request to the API.  The query strings and the ephemeris'     *)
(* answers for the request are chosen from small sets.                     *)
(***************************************************************************)
Cities ==
  {<<"d", "e", "l", "h", "i">>,
   <<"M", "u", "m", "b", "a", "i">>,
   <<"C", "H", "E", "N", "N", "A", "I">>,
   <<" ", "P", "u", "n", "e", " ">>,
   <<"A", "t", "l", "a", "n", "t", "i", "s">>,
   <<>>}

Pad4(y) == IF y < 10 THEN <<"0", "0", "0">> \o Dec(y)
           ELSE IF y < 100 THEN <<"0", "0">> \o Dec(y)
           ELSE IF y < 1000 THEN <<"0">> \o Dec(y) ELSE Dec(y)

DateStr(y, m, d) == Pad4(y) \o <<"-">> \o Fmt02(m) \o <<"-">> \o Fmt02(d)

Dates ==
  {DateStr(2025, 7, d) : d \in 14..20}
    \cup {DateStr(2024, 2, 29), DateStr(2025, 2, 29), DateStr(2025, 13, 40),
          DateStr(0, 1, 1),
          <<"2", "0", "2", "5", "-", "7", "-", "5">>,
          <<"1", "5", "/", "0", "7", "/", "2", "0", "2", "5">>}

\* Answers of rise_trans: hours of the UTC day, a value below zero, and a
\* Julian day number (what swe.rise_trans reports an event time as).
UtValues ==
  {<<0, 1>>, <<1, 4>>, <<27, 2>>, <<37, 2>>, <<2399, 100>>, <<-6, 1>>,
   <<4921743, 2>>}

\* Answers of calc_ut: longitudes in [0, 360).
Longitudes == {<<0, 1>>, <<100, 1>>, <<1079, 3>>}

EphAnswers ==
  [rise : UtValues \cup {Fault}, set : UtValues \cup {Fault},
   sun : Longitudes \cup {Fault}, moon : Longitudes \cup {Fault}]

\* The handler, from the request to the response.  A call after one that
\* raised is not made.
Panchang ==
  /\ pc = "idle"
  /\ \E city \in Cities, date \in Dates, eph \in EphAnswers :
       req' = [city |-> city, date |-> date, eph |-> eph]
  /\ city_key' = resolve_city(req'.city)
  /\ coords' = CITY_COORDS_get(city_key', DefaultCoords)
  /\ dt' = strptime_ymd(req'.date)
  /\ sun' = IF Ok(dt')
            THEN Return(calculate_sun_times(coords'[1], coords'[2], dt'.val.year,
                                            dt'.val.month, dt'.val.day, req'.eph))
            ELSE NotRun
  /\ tithi' = IF Ok(sun') THEN get_tithi(req'.eph) ELSE NotRun
  /\ nakshatra' = IF Ok(tithi') THEN get_nakshatra(req'.eph) ELSE NotRun
  /\ window' = IF Ok(nakshatra')
               THEN rahu_window(weekday_of(dt'.val), sun'.val.sunrise, sun'.val.sunset)
               ELSE NotRun
  /\ rahu' = IF Ok(nakshatra')
             THEN get_rahu_kaal(weekday_of(dt'.val), sun'.val.sunrise, sun'.val.sunset)
             ELSE NotRun
  /\ res' = IF Ok(rahu')
            THEN [kind |-> "data",
                  body |-> [city |-> Title(city_key'),
                            date |-> req'.date,
                            weekday |-> DayNames[weekday_of(dt'.val) + 1],
                            sunrise |-> sun'.val.sunrise,
                            sunset |-> sun'.val.sunset,
                            tithi |-> tithi'.val[1],
                            paksha |-> tithi'.val[2],
                            nakshatra |-> nakshatra'.val,
                            rahu_kaal |-> rahu'.val[1] \o Separator \o rahu'.val[2]]]
            ELSE except_Exception(FirstRaised(<<dt', tithi', nakshatra', rahu'>>).type)
  /\ pc' = "responded"

Root ==
  /\ pc = "idle"
  /\ req' = None
  /\ res' = root
  /\ pc' = "root"
  /\ UNCHANGED locals

Next == Panchang \/ Root

Spec == Init /\ [][Next]_vars

(***************************************************************************)
(* SpecFormat: format_time_from_float applied to every grid value of       *)
(* [0, 24], then parsed back by time_to_float (as get_rahu_kaal does with  *)
(* the strings calculate_sun_times returns).                               *)
(***************************************************************************)
TimeGrid == {RNorm(n, 60 * SubMin) : n \in 0..(24 * 60 * SubMin)}

FormatTime ==
  /\ pc = "idle"
  /\ \E t \in TimeGrid : req' = [t |-> t]
  /\ res' = [text |-> format_time_from_float(req'.t)]
  /\ pc' = "formatted"
  /\ UNCHANGED locals

ParseTime ==
  /\ pc = "formatted"
  /\ res' = [text |-> res.text, back |-> time_to_float(res.text)]
  /\ pc' = "parsed"
  /\ UNCHANGED <<req, locals>>

NextFormat == FormatTime \/ ParseTime

SpecFormat == Init /\ [][NextFormat]_vars

(***************************************************************************)
(* SpecLunar: get_tithi and get_nakshatra applied to longitudes of a grid  *)
(* of [0, 360).                                                            *)
(***************************************************************************)
LonGrid == {RNorm(k, LonRes) : k \in 0..(360 * LonRes - 1)}
SunGrid == {RNorm(k * SunStep, LonRes) : k \in 0..((360 * LonRes - 1) \div SunStep)}

Tithi ==
  /\ pc = "idle"
  /\ \E s \in SunGrid, m \in LonGrid : req' = [sun |-> s, moon |-> m]
  /\ res' = [num |-> tithi_num(req'.sun, req'.moon), ret |-> get_tithi(req')]
  /\ pc' = "tithi"
  /\ UNCHANGED locals

Nakshatra ==
  /\ pc = "idle"
  /\ \E m \in LonGrid : req' = [moon |-> m]
  /\ res' = [num |-> nak_num(req'.moon), ret |-> get_nakshatra(req')]
  /\ pc' = "nakshatra"
  /\ UNCHANGED locals

NextLunar == Tithi \/ Nakshatra

SpecLunar == Init /\ [][NextLunar]_vars

(***************************************************************************)
(* SpecRahu: get_rahu_kaal applied to every weekday and to sunrise/sunset  *)
(* strings as calculate_sun_times produces them (a formatted time of day). *)
(***************************************************************************)
ClockGrid == {RNorm(k * TimeStep, 60) : k \in 0..((24 * 60 - 1) \div TimeStep)}
ClockStrings == {format_time_from_float(t) : t \in ClockGrid}

RahuKaal ==
  /\ pc = "idle"
  /\ \E weekday \in 0..6, sunrise \in ClockStrings, sunset \in ClockStrings :
       req' = [weekday |-> weekday, sunrise |-> sunrise, sunset |-> sunset]
  /\ res' = [window |-> rahu_window(req'.weekday, req'.sunrise, req'.sunset),
             ret |-> get_rahu_kaal(req'.weekday, req'.sunrise, req'.sunset)]
  /\ pc' = "rahu"
  /\ UNCHANGED locals

NextRahu == RahuKaal

SpecRahu == Init /\ [][NextRahu]_vars

(***************************************************************************)
(* Claims about format_time_from_float and time_to_float (SpecFormat).     *)
(***************************************************************************)
\* The 12-hour convention: display hour and label of hour-of-day hr.
Clock12(hr) ==
  IF hr = 0 \/ hr = 24 THEN <<12, <<"A", "M">>>>
  ELSE IF hr < 12 THEN <<hr, <<"A", "M">>>>
  ELSE IF hr = 12 THEN <<12, <<"P", "M">>>>
  ELSE <<hr - 12, <<"P", "M">>>>

TwoDigits(k) == <<DigitChars[(k \div 10) + 1], DigitChars[(k % 10) + 1]>>

ClockText(hr, mm) ==
  TwoDigits(Clock12(hr)[1]) \o <<":">> \o TwoDigits(mm) \o <<" ">> \o Clock12(hr)[2]

\* hr is the whole hour of t: hr <= t < hr + 1.
IsHourOf(hr, t) == hr * t[2] <= t[1] /\ t[1] < (hr + 1) * t[2]

\* The minutes of t past the hour hr, as a rational.
MinutesPast(hr, t) == RNorm((t[1] - hr * t[2]) * 60, t[2])

\* C5 (as amended): for every t with 0 <= t <= 24, format_time_from_float(t)
\* is "HH:MM AM/PM" with HH in 01..12 and the label following the 12-hour
\* convention (0 and 24 give 12 AM, 1-11 AM, 12 gives 12 PM, 13-23 PM with
\* hour - 12), and MM is the two-digit minutes of t TRUNCATED to a whole
\* minute (mm <= minutes < mm + 1).
C5_FormatTruncates ==
  pc \in {"formatted", "parsed"} =>
    \E hr \in 0..24, mm \in 0..59 :
      /\ IsHourOf(hr, req.t)
      /\ RLeq(RInt(mm), MinutesPast(hr, req.t))
      /\ RLess(MinutesPast(hr, req.t), RInt(mm + 1))
      /\ res.text = ClockText(hr, mm)

\* C5 (as claimed): the same, but MM is the minutes of t rounded to the
\* nearest integer (|minutes - mm| <= 1/2).
C5_FormatRounds ==
  pc \in {"formatted", "parsed"} =>
    \E hr \in 0..24, mm \in 0..60 :
      /\ IsHourOf(hr, req.t)
      /\ RLeq(RSub(MinutesPast(hr, req.t), RInt(mm)), <<1, 2>>)
      /\ RLeq(RSub(RInt(mm), MinutesPast(hr, req.t)), <<1, 2>>)
      /\ res.text = ClockText(hr, mm)

\* C5 witness: a time in the last minute of the day, more than half a minute
\* past 11:59 PM, has been formatted as 11:59 PM.
C5_Witness ==
  /\ pc = "formatted"
  /\ IsHourOf(23, req.t)
  /\ RLess(<<119, 2>>, MinutesPast(23, req.t))
  /\ res.text = <<"1", "1", ":", "5", "9", " ", "P", "M">>

\* C6: for every t in [0, 24), time_to_float(format_time_from_float(t))
\* does not raise and is within one minute of t.
C6_RoundTrip ==
  (pc = "parsed" /\ RLess(req.t, RInt(24))) =>
    /\ Ok(res.back)
    /\ RLeq(RSub(req.t, res.back.val), <<1, 60>>)
    /\ RLeq(RSub(res.back.val, req.t), <<1, 60>>)

\* C6 witness: a time in the hour after midnight, not on a whole minute, was
\* formatted ("12:MM AM") and parsed back to a different value of that hour.
C6_Witness ==
  /\ pc = "parsed"
  /\ IsHourOf(0, req.t)
  /\ SubSeq(res.text, 1, 2) = <<"1", "2">>
  /\ Ok(res.back)
  /\ res.back.val # req.t
  /\ IsHourOf(0, res.back.val)

(***************************************************************************)
(* Claims about get_tithi and get_nakshatra (SpecLunar).                   *)
(***************************************************************************)
\* diff is (moon - sun) mod 360: congruent to moon - sun and in [0, 360).
IsDiffMod360(diff, s, m) ==
  /\ RLeq(RInt(0), diff)
  /\ RLess(diff, RInt(360))
  /\ \E k \in -1..1 : diff = RAdd(RSub(m, s), RInt(360 * k))

C8_Nakshatra ==
  pc = "nakshatra" =>
    /\ res.num \in 1..27
    /\ RLeq(RNorm(360 * (res.num - 1), 27), req.moon)
    /\ RLess(req.moon, RNorm(360 * res.num, 27))
    /\ Ok(res.ret)
    /\ res.ret.val = nak_names[res.num]

\* C8 witness: a longitude exactly on the boundary 26 * 360/27 is in the
\* last sector, Revati.
C8_Witness ==
  /\ pc = "nakshatra"
  /\ req.moon = RNorm(360 * 26, 27)
  /\ res.num = 27
  /\ Ok(res.ret)
  /\ res.ret.val = "Revati"

(***************************************************************************)
(* Claim about get_rahu_kaal (SpecRahu).                                   *)
(***************************************************************************)
\* The traditional table: Mon=7, Tue=1, Wed=6, Thu=4, Fri=5, Sat=3, Sun=2.
RahuOrdinal(weekday) ==
  CASE weekday = 0 -> 7 [] weekday = 1 -> 1 [] weekday = 2 -> 6
    [] weekday = 3 -> 4 [] weekday = 4 -> 5 [] weekday = 5 -> 3
    [] weekday = 6 -> 2

\* Minutes after midnight that a well-formed "HH:MM AM/PM" string shows.
ClockMinutes(text) ==
  LET hh == DigitsVal(SubSeq(text, 1, 2))
      mm == DigitsVal(SubSeq(text, 4, 5))
      pm == SubSeq(text, 7, 8) = <<"P", "M">>
  IN  ((hh % 12) + (IF pm THEN 12 ELSE 0)) * 60 + mm

\* The string shows the time v (fractional hours, possibly past 24) to the
\* minute: its clock reading, on that day or the next, is within a minute.
ShowsTime(text, v) ==
  \E k \in 0..1 :
    /\ RLeq(RNorm(ClockMinutes(text) + 1440 * k, 60), v)
    /\ RLess(v, RNorm(ClockMinutes(text) + 1440 * k + 1, 60))

\* C9: for every weekday and every available sunrise/sunset pair, the window
\* get_rahu_kaal returns starts at sunrise + (day_length/8) * (ordinal - 1)
\* and ends day_length/8 later (to the minute), with the ordinal of the
\* fixed table and day_length = sunset - sunrise (sunset + 24 when
\* sunset < sunrise).
C9_RahuWindow ==
  pc = "rahu" =>
    LET a == ClockMinutes(req.sunrise)
        b0 == ClockMinutes(req.sunset)
        b == IF b0 < a THEN b0 + 1440 ELSE b0
        ord == RahuOrdinal(req.weekday)
        ws == RNorm(8 * a + (b - a) * (ord - 1), 480)
        we == RNorm(8 * a + (b - a) * ord, 480)
    IN  /\ Ok(res.ret)
        /\ ShowsTime(res.ret.val[1], ws)
        /\ ShowsTime(res.ret.val[2], we)

(***************************************************************************)
(* Claims about the panchang handler (Spec).                               *)
(***************************************************************************)
\* The ephemeris answered both calc_ut calls of the request.
LongitudesAvailable == req.eph.sun # Fault /\ req.eph.moon # Fault

ResponseFields ==
  {"city", "date", "weekday", "sunrise", "sunset", "tithi", "paksha",
   "nakshatra", "rahu_kaal"}

\* C1: for a request with a valid date, whatever the rise/set search did
\* (also when it failed and sunrise and sunset are "N/A"), the handler
\* returns the data record, with tithi, paksha and nakshatra computed from
\* the ephemeris longitudes; it does not return a failure record.
C1_TithiDespiteSunFailure ==
  (pc = "responded" /\ Ok(dt) /\ LongitudesAvailable) =>
    /\ res.kind = "data"
    /\ res.body.tithi = get_tithi(req.eph).val[1]
    /\ res.body.paksha = get_tithi(req.eph).val[2]
    /\ res.body.nakshatra = get_nakshatra(req.eph).val

\* C2: when sunrise or sunset is "N/A", get_rahu_kaal is not called and the
\* rahu_kaal reported for the request is "N/A" for both start and end.
C2_RahuSkippedWhenUnavailable ==
  (pc = "responded" /\ Ok(sun) /\ LongitudesAvailable
     /\ (sun.val.sunrise = NA \/ sun.val.sunset = NA)) =>
    /\ rahu = NotRun
    /\ res.kind = "data"
    /\ res.body.rahu_kaal = NA \o Separator \o NA

\* C3: for every city string, date string and behaviour of the ephemeris,
\* the handler returns either the data record with all nine fields or a
\* failure record (success false, with a message), and no exception leaves
\* it; a date that strptime rejects (such as "2025-13-40", "2025-02-29" or
\* "15/07/2025") always gives the failure record.
C3_WellFormedResponse ==
  pc = "responded" =>
    /\ res.kind \in {"data", "failure"}
    /\ res.kind = "data" => DOMAIN res.body = ResponseFields
    /\ res.kind = "failure" =>
         /\ DOMAIN res.body = {"success", "error"}
         /\ res.body.success = FALSE
         /\ res.body.error \in STRING
    /\ Raised(dt) => res.kind = "failure"
    /\ req.date \in {<<"2", "0", "2", "5", "-", "1", "3", "-", "4", "0">>,
                     <<"2", "0", "2", "5", "-", "0", "2", "-", "2", "9">>,
                     <<"1", "5", "/", "0", "7", "/", "2", "0", "2", "5">>}
         => res.kind = "failure"

\* C3 witness: the date is valid but the ephemeris faulted on the Sun's
\* longitude, an error that is not a ValueError, and the handler answered
\* with the failure record.
C3_Witness ==
  /\ pc = "responded"
  /\ Ok(dt)
  /\ Raised(tithi)
  /\ tithi.type = "swisseph.Error"
  /\ res.kind = "failure"
  /\ res.body.error = "swisseph.Error"

\* C4: every fractional-hour value passed to format_time_from_float, by
\* calculate_sun_times (sunrise, sunset) and by get_rahu_kaal (rahu_start,
\* rahu_end), lies in [0, 24).
C4_FormattedInRange ==
  pc = "responded" =>
    \A v \in (IF Ok(sun) THEN sun.val.formatted ELSE {})
               \cup (IF Ok(window)
                     THEN {window.val.rahu_start, window.val.rahu_end} ELSE {}) :
      RLeq(RInt(0), v) /\ RLess(v, RInt(24))

\* The city string without surrounding whitespace.
Strip(s) == StripRight(StripLeft(s))

\* text is the key but for the case of its letters.
MatchesKey(text, key) ==
  /\ Len(text) = Len(key)
  /\ \A j \in 1..Len(key) : LowerChar(text[j]) = key[j]

\* The coordinates the handler must use for text: those of the key that text
\* matches, or Delhi's.
CoordsFor(text) ==
  IF \E i \in 1..Len(CITY_KEYS) : MatchesKey(text, CITY_KEYS[i])
  THEN CITY_VALUES[CHOOSE i \in 1..Len(CITY_KEYS) : MatchesKey(text, CITY_KEYS[i])]
  ELSE DefaultCoords

\* A failure record is due to one of the calls of the try block raising.
FailureOnlyFromCalls ==
  /\ res.kind # "unhandled"
  /\ res.kind = "failure" =>
       \E i \in 1..4 : Raised(<<dt, tithi, nakshatra, rahu>>[i])

\* C10 (as amended): the city string is lowercased (not trimmed) before the
\* lookup: a string that is a key of the city table but for letter case
\* resolves to that key's coordinates; every other string, "Atlantis" and
\* also a key with surrounding whitespace, falls back to Delhi
\* (28.6139, 77.2090), and the city never causes a failure record.
C10_CityLowercased ==
  pc = "responded" =>
    /\ coords = CoordsFor(req.city)
    /\ FailureOnlyFromCalls

\* C10 (as claimed): the city string is trimmed and lowercased before the
\* lookup, so surrounding whitespace does not matter.
C10_CityTrimmed ==
  pc = "responded" =>
    /\ coords = CoordsFor(Strip(req.city))
    /\ FailureOnlyFromCalls

\* C10 witness: " Pune " was requested and Delhi's coordinates were used;
\* the response is the data record for the unknown city.
C10_Witness ==
  /\ pc = "responded"
  /\ req.city = <<" ", "P", "u", "n", "e", " ">>
  /\ coords = Coord(286139, 772090)
  /\ res.kind = "data"

====
